---- MODULE Spec2Model ----
(***************************************************************************)
(* Model of the pyproject converters: poetry_to_pip.py (Poetry -> pip) and *)
(* pyprojectconverter/pip_to_poetry.py (pip -> Poetry).                    *)
(*                                                                         *)
(* Python strings are sequences of one-character strings, so that split,   *)
(* replace, startswith, "in", strip, lower, int() and str() are computed   *)
(* the way Python computes them.  An insertion-ordered dict is a sequence  *)
(* of <<key, value>> pairs with distinct keys.  A call either returns a    *)
(* value or raises: Ret(v) / Raise.                                        *)
(***************************************************************************)
EXTENDS Integers, Sequences, FiniteSets, TLC

\* ------------------------------------------------------------------ bounds
\* Largest number used for a version component of a generated specifier.
MaxNum == 10
\* Longest raw string fed to convert_version.
MaxLen == 5
\* Longest dependency list / mapping of a source document.
MaxDeps == 2
\* Longest dev-dependency list / mapping of a source document.
MaxDev == 1

\* ------------------------------------------------- Python string primitives
Ret(v) == [ok |-> TRUE, val |-> v]
Raise == [ok |-> FALSE, val |-> <<>>]

DigitChars == <<"0", "1", "2", "3", "4", "5", "6", "7", "8", "9">>

IsDigit(c) == \E i \in 1..10 : DigitChars[i] = c

DigitVal(c) == (CHOOSE i \in 1..10 : DigitChars[i] = c) - 1

\* str.startswith(prefix)
StartsWith(s, prefix) ==
    /\ Len(s) >= Len(prefix)
    /\ SubSeq(s, 1, Len(prefix)) = prefix

\* Index of the first occurrence of sub in s, 0 when there is none (str.find + 1).
IndexOf(s, sub) ==
    LET hits == {i \in 1..(Len(s) - Len(sub) + 1) : SubSeq(s, i, i + Len(sub) - 1) = sub}
    IN  IF hits = {} THEN 0 ELSE CHOOSE i \in hits : \A j \in hits : i <= j

\* sub in s
Contains(s, sub) == IndexOf(s, sub) # 0

\* str.split(sep) for a non-empty separator: the list of pieces, left to right.
RECURSIVE Split(_, _)
Split(s, sep) ==
    LET i == IndexOf(s, sep)
    IN  IF i = 0 THEN <<s>>
        ELSE <<SubSeq(s, 1, i - 1)>> \o Split(SubSeq(s, i + Len(sep), Len(s)), sep)

\* sep.join(parts)
RECURSIVE Join(_, _)
Join(sep, parts) ==
    IF Len(parts) = 0 THEN <<>>
    ELSE IF Len(parts) = 1 THEN parts[1]
    ELSE parts[1] \o sep \o Join(sep, Tail(parts))

\* str.replace(old, new): every non-overlapping occurrence, left to right.
RECURSIVE Replace(_, _, _)
Replace(s, old, new) ==
    LET i == IndexOf(s, old)
    IN  IF i = 0 THEN s
        ELSE SubSeq(s, 1, i - 1) \o new \o Replace(SubSeq(s, i + Len(old), Len(s)), old, new)

\* str.strip(): leading and trailing blanks removed.
RECURSIVE Strip(_)
Strip(s) ==
    IF Len(s) = 0 THEN s
    ELSE IF s[1] = " " THEN Strip(Tail(s))
    ELSE IF s[Len(s)] = " " THEN Strip(SubSeq(s, 1, Len(s) - 1))
    ELSE s

\* str.lower() on the letters the model's names use.
LowerChar(c) ==
    CASE c = "P" -> "p"
      [] c = "N" -> "n"
      [] OTHER -> c

Lower(s) == [i \in 1..Len(s) |-> LowerChar(s[i])]

\* int(s): blanks around the literal are ignored; a literal that is not a
\* non-empty run of decimal digits raises ValueError.  (The model's strings
\* carry no sign and no underscore.)
RECURSIVE DigitsValue(_)
DigitsValue(s) ==
    IF Len(s) = 0 THEN 0
    ELSE 10 * DigitsValue(SubSeq(s, 1, Len(s) - 1)) + DigitVal(s[Len(s)])

IntParse(s) ==
    LET t == Strip(s)
    IN  IF Len(t) > 0 /\ \A i \in 1..Len(t) : IsDigit(t[i])
        THEN Ret(DigitsValue(t))
        ELSE Raise

\* str(n) for a non-negative integer.
RECURSIVE IntToStr(_)
IntToStr(n) ==
    IF n < 10 THEN <<DigitChars[n + 1]>>
    ELSE IntToStr(n \div 10) \o <<DigitChars[(n % 10) + 1]>>

\* ------------------------------------------- poetry_to_pip.py: specifier
\* convert_version_specifier with the tilde branch's increment of minor left out.
convert_version_specifier_no_increment(version) ==
    IF version = <<"*">> THEN Ret(<<>>)
    ELSE IF StartsWith(version, <<"^">>) THEN
        LET base_version == Tail(version)
            parts == Split(base_version, <<".">>)
            major == IntParse(parts[1])
        IN  IF ~major.ok THEN Raise
            ELSE Ret(<<">", "=">> \o base_version \o <<",", "<">>
                     \o IntToStr(major.val + 1) \o <<".", "0", ".", "0">>)
    ELSE IF StartsWith(version, <<"~">>) THEN
        LET base_version == Tail(version)
            parts == Split(base_version, <<".">>)
        IN  IF Len(parts) < 2 THEN Raise
            ELSE LET major == parts[1]
                     minor == parts[2]
                     parsed == IntParse(minor)
                 IN  IF minor # <<>> /\ ~parsed.ok THEN Raise
                     ELSE LET next_minor == IF minor # <<>> THEN IntToStr(parsed.val)
                                            ELSE <<"0">>
                          IN  Ret(<<">", "=">> \o base_version \o <<",", "<">> \o major
                                  \o <<".">> \o next_minor \o <<".", "0">>)
    ELSE Ret(version)

convert_version_specifier(version) ==
    IF version = <<"*">> THEN Ret(<<>>)
    ELSE IF StartsWith(version, <<"^">>) THEN
        LET base_version == Tail(version)
            parts == Split(base_version, <<".">>)
            major == IntParse(parts[1])
        IN  IF ~major.ok THEN Raise
            ELSE Ret(<<">", "=">> \o base_version \o <<",", "<">>
                     \o IntToStr(major.val + 1) \o <<".", "0", ".", "0">>)
    ELSE IF StartsWith(version, <<"~">>) THEN
        LET base_version == Tail(version)
            parts == Split(base_version, <<".">>)
        IN  IF Len(parts) < 2 THEN Raise
            ELSE LET major == parts[1]
                     minor == parts[2]
                     parsed == IntParse(minor)
                 IN  IF minor # <<>> /\ ~parsed.ok THEN Raise
                     ELSE LET next_minor == IF minor # <<>> THEN IntToStr(parsed.val + 1)
                                            ELSE <<"0">>
                          IN  Ret(<<">", "=">> \o base_version \o <<",", "<">> \o major
                                  \o <<".">> \o next_minor \o <<".", "0">>)
    ELSE Ret(version)

\* ------------------------------------------- pip_to_poetry.py: specifier
\* convert_version with the lower bound's ">=" left in place.
convert_version_keeps_operator(pip_version) ==
    IF pip_version = <<>> \/ pip_version = <<"*">> THEN <<"*">>
    ELSE IF Contains(pip_version, <<"=", "=">>)
        THEN Replace(pip_version, <<"=", "=">>, <<>>)
    ELSE IF Contains(pip_version, <<">", "=">>) /\ Contains(pip_version, <<"<">>)
        THEN <<"^">> \o Split(pip_version, <<",">>)[1]
    ELSE pip_version

\* convert_version with the range rule tried before the "==" rule.
convert_version_range_first(pip_version) ==
    IF pip_version = <<>> \/ pip_version = <<"*">> THEN <<"*">>
    ELSE IF Contains(pip_version, <<">", "=">>) /\ Contains(pip_version, <<"<">>)
        THEN LET min_version == Replace(Split(pip_version, <<",">>)[1], <<">", "=">>, <<>>)
             IN  <<"^">> \o min_version
    ELSE IF Contains(pip_version, <<"=", "=">>)
        THEN Replace(pip_version, <<"=", "=">>, <<>>)
    ELSE pip_version

convert_version(pip_version) ==
    IF pip_version = <<>> \/ pip_version = <<"*">> THEN <<"*">>
    ELSE IF Contains(pip_version, <<"=", "=">>)
        THEN Replace(pip_version, <<"=", "=">>, <<>>)
    ELSE IF Contains(pip_version, <<">", "=">>) /\ Contains(pip_version, <<"<">>)
        THEN LET min_version == Replace(Split(pip_version, <<",">>)[1], <<">", "=">>, <<>>)
             IN  <<"^">> \o min_version
    ELSE pip_version

\* ------------------------------------------------------ documents and dicts
\* dict[k] = v on an insertion-ordered dict: an existing key keeps its place.
DictSet(d, k, v) ==
    IF \E i \in 1..Len(d) : d[i][1] = k
    THEN [i \in 1..Len(d) |-> IF d[i][1] = k THEN <<k, v>> ELSE d[i]]
    ELSE Append(d, <<k, v>>)

HasKey(d, k) == \E i \in 1..Len(d) : d[i][1] = k

Lookup(d, k) == d[CHOOSE i \in 1..Len(d) : d[i][1] = k][2]

python == <<"p", "y", "t", "h", "o", "n">>

\* The values the metadata fields of a source document carry.
FieldValue(f) ==
    CASE f = "name" -> "demo"
      [] f = "version" -> "0.1.0"
      [] f = "description" -> "A demo"
      [] f = "authors" -> "Ann <ann@example.org>"
      [] f = "license" -> "MIT"

\* A [tool.poetry] table.
NoTable ==
    [name |-> "", version |-> "", description |-> "", authors |-> "", license |-> "",
     dependencies |-> <<>>, has_group |-> FALSE, dev |-> <<>>, packages |-> <<>>]

\* A [project] table.
NoProject ==
    [name |-> "", version |-> "", description |-> "", authors |-> "",
     dependencies |-> <<>>, has_optional |-> FALSE, optional_dev |-> <<>>]

\* A document: the [project] table when there is one, the [tool.*] sections in
\* order, and [build-system].  A tool section is a document fragment; the
\* fragment of [tool.poetry] carries its table.
NoDoc ==
    [has_project |-> FALSE, project |-> NoProject, tool |-> <<>>,
     requires |-> <<>>, backend |-> ""]

Section(frag) == [frag |-> frag, table |-> NoTable]

\* ---------------------------------------- poetry_to_pip.py: dependencies
\* [f"{pkg}{convert_version_specifier(ver)}" for pkg, ver in entries if keep]:
\* Ret(list), or Raise as soon as one conversion raises.
RECURSIVE ConvertEntries(_, _)
ConvertEntries(entries, skip_python) ==
    IF Len(entries) = 0 THEN Ret(<<>>)
    ELSE LET pkg == entries[1][1]
             ver == entries[1][2]
             rest == ConvertEntries(Tail(entries), skip_python)
         IN  IF skip_python /\ Lower(pkg) = python THEN rest
             ELSE LET c == convert_version_specifier(ver)
                  IN  IF ~c.ok \/ ~rest.ok THEN Raise
                      ELSE Ret(<<pkg \o c.val>> \o rest.val)

poetry_to_pip_get_dependencies(poetry_metadata) ==
    IF "dependencies" \in poetry_metadata.absent THEN Raise
    ELSE ConvertEntries(poetry_metadata.dependencies, TRUE)

poetry_to_pip_get_dev_dependencies(poetry_metadata) ==
    IF poetry_metadata.dev_state = "absent" THEN Ret(<<>>)
    ELSE IF poetry_metadata.dev_state = "no_deps" THEN Raise
    ELSE ConvertEntries(poetry_metadata.dev, FALSE)

create_pip_metadata(poetry_metadata) ==
    LET dependencies == poetry_to_pip_get_dependencies(poetry_metadata)
        dev_dependencies == poetry_to_pip_get_dev_dependencies(poetry_metadata)
    IN  IF ~dependencies.ok \/ ~dev_dependencies.ok THEN Raise
        ELSE IF {"name", "version", "description", "authors"} \cap poetry_metadata.absent # {}
            THEN Raise
        ELSE Ret([has_project |-> TRUE,
                  project |-> [name |-> FieldValue("name"),
                               version |-> FieldValue("version"),
                               description |-> FieldValue("description"),
                               authors |-> FieldValue("authors"),
                               dependencies |-> dependencies.val,
                               has_optional |-> dev_dependencies.val # <<>>,
                               optional_dev |-> IF dev_dependencies.val # <<>>
                                                THEN dev_dependencies.val ELSE <<>>],
                  tool |-> <<>>,
                  requires |-> <<"setuptools", "wheel">>,
                  backend |-> "setuptools.build_meta"])

\* The document write_to_pyproject_toml builds from pip_metadata and dumps.
write_to_pyproject_toml(pip_metadata) ==
    [has_project |-> TRUE,
     project |-> [name |-> pip_metadata.project.name,
                  version |-> pip_metadata.project.version,
                  description |-> pip_metadata.project.description,
                  authors |-> pip_metadata.project.authors,
                  dependencies |-> pip_metadata.project.dependencies,
                  has_optional |-> pip_metadata.project.has_optional,
                  optional_dev |-> IF pip_metadata.project.has_optional
                                   THEN pip_metadata.project.optional_dev ELSE <<>>],
     tool |-> <<>>,
     requires |-> pip_metadata.requires,
     backend |-> pip_metadata.backend]

\* ---------------------------------------- pip_to_poetry.py: dependencies
\* name, *version = dep.split(">=") if ">=" in dep else dep.split("==");
\* the entry is <<name.strip(), convert_version(">=".join(version).strip())>>,
\* or <<name.strip(), "*">> when version is empty.
DepEntry(dep) ==
    LET parts == IF Contains(dep, <<">", "=">>) THEN Split(dep, <<">", "=">>)
                 ELSE Split(dep, <<"=", "=">>)
        name == parts[1]
        version == Tail(parts)
    IN  <<Strip(name),
          IF version # <<>> THEN convert_version(Strip(Join(<<">", "=">>, version)))
          ELSE <<"*">>>>

RECURSIVE DepDict(_, _)
DepDict(acc, deps) ==
    IF Len(deps) = 0 THEN acc
    ELSE DepDict(DictSet(acc, DepEntry(deps[1])[1], DepEntry(deps[1])[2]), Tail(deps))

\* pip_metadata.get("dependencies", []): an absent key is an empty list.
pip_to_poetry_get_dependencies(pip_metadata) ==
    IF "dependencies" \in pip_metadata.absent THEN <<>>
    ELSE DepDict(<<>>, pip_metadata.dependencies)

pip_to_poetry_get_dev_dependencies(pip_metadata) ==
    IF pip_metadata.dev_state = "present" THEN DepDict(<<>>, pip_metadata.dev) ELSE <<>>

\* The packages.find.where list of a [tool.setuptools] fragment, <<>> without one.
FindWhere(frag) == IF frag = "setuptools_find_src" THEN <<"src">> ELSE <<>>

get_packages(original_toml) ==
    IF HasKey(original_toml.tool, "setuptools")
       /\ FindWhere(Lookup(original_toml.tool, "setuptools").frag) # <<>>
    THEN <<[include |-> "docktuna",
            from |-> FindWhere(Lookup(original_toml.tool, "setuptools").frag)[1]]>>
    ELSE <<>>

\* {"python": "^3.11", **dependencies}
RECURSIVE Spread(_, _)
Spread(acc, d) ==
    IF Len(d) = 0 THEN acc ELSE Spread(DictSet(acc, d[1][1], d[1][2]), Tail(d))

\* for tool_key in original tool: if tool_key != "setuptools": tool[tool_key] = ...
RECURSIVE PreserveTools(_, _)
PreserveTools(tool, original) ==
    IF Len(original) = 0 THEN tool
    ELSE IF original[1][1] # "setuptools"
        THEN PreserveTools(DictSet(tool, original[1][1], original[1][2]), Tail(original))
    ELSE PreserveTools(tool, Tail(original))

\* create_poetry_metadata reading version with a default instead of a lookup.
create_poetry_metadata_lenient(pip_metadata, original_toml) ==
    LET dependencies == pip_to_poetry_get_dependencies(pip_metadata)
        dev_dependencies == pip_to_poetry_get_dev_dependencies(pip_metadata)
        packages == get_packages(original_toml)
        poetry == [name |-> FieldValue("name"),
                   version |-> FieldValue("version"),
                   description |-> FieldValue("description"),
                   authors |-> FieldValue("authors"),
                   license |-> IF "license" \in pip_metadata.absent THEN ""
                               ELSE FieldValue("license"),
                   dependencies |-> Spread(<<<<python, <<"^", "3", ".", "1", "1">>>>>>,
                                           dependencies),
                   has_group |-> dev_dependencies # <<>>,
                   dev |-> IF dev_dependencies # <<>> THEN dev_dependencies ELSE <<>>,
                   packages |-> IF packages # <<>> THEN packages ELSE <<>>]
    IN  IF {"name", "description", "authors"} \cap pip_metadata.absent # {}
        THEN Raise
        ELSE Ret([has_project |-> FALSE,
                  project |-> NoProject,
                  tool |-> PreserveTools(<<<<"poetry", [frag |-> "generated", table |-> poetry]>>>>,
                                         original_toml.tool),
                  requires |-> <<"poetry-core">>,
                  backend |-> "poetry.core.masonry.api"])

create_poetry_metadata(pip_metadata, original_toml) ==
    LET dependencies == pip_to_poetry_get_dependencies(pip_metadata)
        dev_dependencies == pip_to_poetry_get_dev_dependencies(pip_metadata)
        packages == get_packages(original_toml)
        poetry == [name |-> FieldValue("name"),
                   version |-> FieldValue("version"),
                   description |-> FieldValue("description"),
                   authors |-> FieldValue("authors"),
                   license |-> IF "license" \in pip_metadata.absent THEN ""
                               ELSE FieldValue("license"),
                   dependencies |-> Spread(<<<<python, <<"^", "3", ".", "1", "1">>>>>>,
                                           dependencies),
                   has_group |-> dev_dependencies # <<>>,
                   dev |-> IF dev_dependencies # <<>> THEN dev_dependencies ELSE <<>>,
                   packages |-> IF packages # <<>> THEN packages ELSE <<>>]
    IN  IF {"name", "version", "description", "authors"} \cap pip_metadata.absent # {}
        THEN Raise
        ELSE Ret([has_project |-> FALSE,
                  project |-> NoProject,
                  tool |-> PreserveTools(<<<<"poetry", [frag |-> "generated", table |-> poetry]>>>>,
                                         original_toml.tool),
                  requires |-> <<"poetry-core">>,
                  backend |-> "poetry.core.masonry.api"])

\* ----------------------------------------------------------------- state
VARIABLES
    call,     \* specifier-level run: the function under call
    shape,    \* specifier-level run: how the argument was built
    arg,      \* specifier-level run: the argument string
    res,      \* specifier-level run: Ret(string) or Raise
    back,     \* specifier-level run: the result translated back by convert_version
    fpc,      \* specifier-level run: "ready", "returned", "raised", "back", "idle"
    conv,     \* converter run: "poetry_to_pip", "pip_to_poetry" or "none"
    src,      \* converter run: the source file and its parsed document
    pc,       \* converter run: position in main
    meta,     \* converter run: the metadata built by the conversion step
    outfile,  \* converter run: the output file
    printed,  \* converter run: the success message has been printed
    steps     \* converter run: the steps of main completed so far, in order

fnvars == <<call, shape, arg, res, back, fpc>>
runvars == <<conv, src, pc, meta, outfile, printed, steps>>
vars == <<call, shape, arg, res, back, fpc, conv, src, pc, meta, outfile, printed, steps>>

\* ------------------------------------------------ specifier-level inputs
Dot == <<".">>

V1(x) == IntToStr(x)
V2(x, y) == IntToStr(x) \o Dot \o IntToStr(y)
V3(x, y, z) == IntToStr(x) \o Dot \o IntToStr(y) \o Dot \o IntToStr(z)

Nums == 0..MaxNum

Shapes ==
    [kind : {"caret3", "tilde3", "bare3"}, x : Nums, y : Nums, z : Nums]
    \cup [kind : {"tilde2", "caret2", "bare2", "ge2"}, x : Nums, y : Nums, z : {0}]
    \cup [kind : {"caret1", "tilde1", "tilde1dot", "padcaret1"}, x : Nums, y : {0}, z : {0}]
    \cup [kind : {"star", "caret0", "tilde0", "caretword"}, x : {0}, y : {0}, z : {0}]

\* The specifier string a shape stands for.
Render(sh) ==
    CASE sh.kind = "star" -> <<"*">>
      [] sh.kind = "caret3" -> <<"^">> \o V3(sh.x, sh.y, sh.z)
      [] sh.kind = "caret2" -> <<"^">> \o V2(sh.x, sh.y)
      [] sh.kind = "caret1" -> <<"^">> \o V1(sh.x)
      [] sh.kind = "padcaret1" -> <<"^", "0">> \o V1(sh.x)
      [] sh.kind = "caret0" -> <<"^">>
      [] sh.kind = "caretword" -> <<"^", "a">>
      [] sh.kind = "tilde3" -> <<"~">> \o V3(sh.x, sh.y, sh.z)
      [] sh.kind = "tilde2" -> <<"~">> \o V2(sh.x, sh.y)
      [] sh.kind = "tilde1" -> <<"~">> \o V1(sh.x)
      [] sh.kind = "tilde1dot" -> <<"~">> \o V1(sh.x) \o Dot
      [] sh.kind = "tilde0" -> <<"~">>
      [] sh.kind = "bare3" -> V3(sh.x, sh.y, sh.z)
      [] sh.kind = "bare2" -> V2(sh.x, sh.y)
      [] sh.kind = "ge2" -> <<">", "=">> \o V2(sh.x, sh.y)

RawAlphabet == {">", "=", "<", ",", "1", "*"}

RawStrings == UNION {[1..n -> RawAlphabet] : n \in 0..MaxLen}

RawShape == [kind |-> "raw", x |-> 0, y |-> 0, z |-> 0]

\* --------------------------------------------- specifier-level behaviour
IdleRun ==
    /\ conv = "none"
    /\ src = [args_ok |-> TRUE, readable |-> TRUE, writable |-> TRUE, has_table |-> TRUE,
              absent |-> {}, dependencies |-> <<>>, dev_state |-> "absent", dev |-> <<>>,
              tool |-> <<>>]
    /\ pc = "idle"
    /\ meta = NoDoc
    /\ outfile = [written |-> FALSE, doc |-> NoDoc]
    /\ printed = FALSE
    /\ steps = <<>>

InitFn ==
    /\ IdleRun
    /\ fpc = "ready"
    /\ res = Raise
    /\ back = <<>>
    /\ \/ /\ call = "convert_version_specifier"
          /\ shape \in Shapes
          /\ arg = Render(shape)
       \/ /\ call = "convert_version"
          /\ shape = RawShape
          /\ arg \in RawStrings

\* convert_version_specifier(arg) returns.
CallConvertVersionSpecifier ==
    /\ fpc = "ready"
    /\ call = "convert_version_specifier"
    /\ convert_version_specifier(arg).ok
    /\ res' = convert_version_specifier(arg)
    /\ fpc' = "returned"
    /\ UNCHANGED <<call, shape, arg, back>>
    /\ UNCHANGED runvars

\* convert_version_specifier(arg) raises ValueError.
RaiseConvertVersionSpecifier ==
    /\ fpc = "ready"
    /\ call = "convert_version_specifier"
    /\ ~convert_version_specifier(arg).ok
    /\ res' = Raise
    /\ fpc' = "raised"
    /\ UNCHANGED <<call, shape, arg, back>>
    /\ UNCHANGED runvars

\* convert_version(arg) returns (it has no raising path).
CallConvertVersion ==
    /\ fpc = "ready"
    /\ call = "convert_version"
    /\ res' = Ret(convert_version(arg))
    /\ fpc' = "returned"
    /\ UNCHANGED <<call, shape, arg, back>>
    /\ UNCHANGED runvars

\* The pip constraint just produced is translated back by convert_version.
TranslateBack ==
    /\ fpc = "returned"
    /\ call = "convert_version_specifier"
    /\ back' = convert_version(res.val)
    /\ fpc' = "back"
    /\ UNCHANGED <<call, shape, arg, res>>
    /\ UNCHANGED runvars

NextFn ==
    \/ CallConvertVersionSpecifier
    \/ RaiseConvertVersionSpecifier
    \/ CallConvertVersion
    \/ TranslateBack

SpecFn == InitFn /\ [][NextFn]_vars

\* ------------------------------------------------- converter-run inputs
np == <<"n", "p">>
xp_padded == <<" ", "x", "p", " ">>
Python_cap == <<"P", "y", "t", "h", "o", "n">>

\* Sequences over S of length at most n.
SeqsUpTo(S, n) == UNION {[1..k -> S] : k \in 0..n}

DistinctKeys(d) == \A i, j \in 1..Len(d) : d[i][1] = d[j][1] => i = j

\* Poetry form: name -> specifier entries of [tool.poetry.dependencies].
PoetryEntries ==
    ({np} \X {<<"*">>, <<"^", "1", ".", "2", ".", "3">>, <<"~", "1", ".", "2">>,
              <<"1", ".", "2", ".", "3">>, <<"~", "1">>})
    \cup {<<python, <<"^", "3", ".", "9">>>>, <<Python_cap, <<"*">>>>}

PoetryDevEntries ==
    {<<np, <<"^", "1", ".", "2", ".", "3">>>>, <<python, <<"^", "3", ".", "9">>>>}

PoetryTools ==
    {<<>>,
     <<<<"black", Section("black_cfg")>>>>,
     <<<<"black", Section("black_cfg")>>, <<"pytest", Section("pytest_cfg")>>>>}

\* pip form: the strings of [project] dependencies, as name and constraint.
PipDepParts ==
    ({np} \X {<<>>,
              <<"=", "=", "1", ".", "2", ".", "0">>,
              <<">", "=", "1", ".", "2", ".", "0", ",", "<", "2", ".", "0", ".", "0">>,
              <<">", "=", "1", ".", "2", ".", "0">>})
    \cup {<<xp_padded, <<"=", "=", "1", ".", "2", ".", "0">>>>,
          <<python, <<">", "=", "3", ".", "9">>>>}

PipDeps == {d[1] \o d[2] : d \in PipDepParts}

PipDevDeps == {np, np \o <<"=", "=", "1", ".", "2", ".", "0">>}

\* A [tool.poetry] table already present in a pip-form source.
OldPoetry(with_group) ==
    [frag |-> "poetry_old",
     table |-> [NoTable EXCEPT !.has_group = with_group,
                               !.dev = IF with_group
                                       THEN <<<<np, <<"^", "1", ".", "0", ".", "0">>>>>>
                                       ELSE <<>>]]

PipTools ==
    {<<>>,
     <<<<"black", Section("black_cfg")>>>>,
     <<<<"setuptools", Section("setuptools_plain")>>, <<"black", Section("black_cfg")>>>>,
     <<<<"black", Section("black_cfg")>>, <<"setuptools", Section("setuptools_find_src")>>>>,
     <<<<"black", Section("black_cfg")>>, <<"poetry", OldPoetry(TRUE)>>>>,
     <<<<"poetry", OldPoetry(FALSE)>>>>}

\* The file and the required keys: everything in place, or one thing wrong.
Environments ==
    {[args_ok |-> a, readable |-> r, writable |-> w, has_table |-> t, absent |-> m] :
        a \in BOOLEAN, r \in BOOLEAN, w \in BOOLEAN, t \in BOOLEAN,
        m \in {{}, {"name"}, {"version"}, {"description"}, {"authors"},
               {"dependencies"}, {"license"}}}

OneFault(e) ==
    Cardinality({b \in {e.args_ok, e.readable, e.writable, e.has_table} : ~b})
        + Cardinality(e.absent) <= 1

Source(e, deps, dev_state, dev, tool) ==
    [args_ok |-> e.args_ok, readable |-> e.readable, writable |-> e.writable,
     has_table |-> e.has_table, absent |-> e.absent, dependencies |-> deps,
     dev_state |-> dev_state, dev |-> dev, tool |-> tool]

\* --------------------------------------------------- converter-run behaviour
IdleFn ==
    /\ call = "none"
    /\ shape = RawShape
    /\ arg = <<>>
    /\ res = Raise
    /\ back = <<>>
    /\ fpc = "idle"

Init ==
    /\ IdleFn
    /\ pc = "start"
    /\ meta = NoDoc
    /\ outfile = [written |-> FALSE, doc |-> NoDoc]
    /\ printed = FALSE
    /\ steps = <<>>
    /\ \E e \in {x \in Environments : OneFault(x)} :
        \/ /\ conv = "poetry_to_pip"
           /\ e.args_ok
           /\ \E deps \in {d \in SeqsUpTo(PoetryEntries, MaxDeps) : DistinctKeys(d)},
                 dev_state \in {"absent", "no_deps", "present"},
                 dev \in {d \in SeqsUpTo(PoetryDevEntries, MaxDev) : DistinctKeys(d)},
                 tool \in PoetryTools :
                 /\ dev_state # "present" => dev = <<>>
                 /\ src = Source(e, deps, dev_state, dev, tool)
        \/ /\ conv = "pip_to_poetry"
           /\ \E deps \in SeqsUpTo(PipDeps, MaxDeps),
                 dev_state \in {"absent", "present"},
                 dev \in SeqsUpTo(PipDevDeps, MaxDev),
                 tool \in PipTools :
                 /\ dev_state # "present" => dev = <<>>
                 /\ src = Source(e, deps, dev_state, dev, tool)

Fail ==
    /\ pc' = "failed"
    /\ UNCHANGED <<conv, src, meta, outfile, printed, steps>>

\* poetry_to_pip.main: toml_doc = get_toml_doc(path)
PoetryToPipRead ==
    /\ conv = "poetry_to_pip"
    /\ pc = "start"
    /\ IF src.readable
       THEN /\ pc' = "read"
            /\ steps' = Append(steps, "read")
            /\ UNCHANGED <<conv, src, meta, outfile, printed>>
       ELSE Fail
    /\ UNCHANGED fnvars

\* poetry_to_pip.main: get_poetry_metadata, then create_pip_metadata
PoetryToPipConvert ==
    /\ conv = "poetry_to_pip"
    /\ pc = "read"
    /\ IF src.has_table /\ create_pip_metadata(src).ok
       THEN /\ meta' = create_pip_metadata(src).val
            /\ pc' = "converted"
            /\ steps' = Append(steps, "convert")
            /\ UNCHANGED <<conv, src, outfile, printed>>
       ELSE Fail
    /\ UNCHANGED fnvars

\* poetry_to_pip.main: write_to_pyproject_toml, after which main returns
PoetryToPipWrite ==
    /\ conv = "poetry_to_pip"
    /\ pc = "converted"
    /\ IF src.writable
       THEN /\ outfile' = [written |-> TRUE, doc |-> write_to_pyproject_toml(meta)]
            /\ pc' = "done"
            /\ steps' = Append(steps, "write")
            /\ UNCHANGED <<conv, src, meta, printed>>
       ELSE Fail
    /\ UNCHANGED fnvars

\* pip_to_poetry.main: parse_args, then toml_doc = tu.get_toml_doc(path)
PipToPoetryRead ==
    /\ conv = "pip_to_poetry"
    /\ pc = "start"
    /\ IF src.args_ok /\ src.readable
       THEN /\ pc' = "read"
            /\ steps' = Append(steps, "read")
            /\ UNCHANGED <<conv, src, meta, outfile, printed>>
       ELSE Fail
    /\ UNCHANGED fnvars

\* pip_to_poetry.main: pip_metadata = toml_doc["project"], then create_poetry_metadata
PipToPoetryConvert ==
    /\ conv = "pip_to_poetry"
    /\ pc = "read"
    /\ IF src.has_table /\ create_poetry_metadata(src, src).ok
       THEN /\ meta' = create_poetry_metadata(src, src).val
            /\ pc' = "converted"
            /\ steps' = Append(steps, "convert")
            /\ UNCHANGED <<conv, src, outfile, printed>>
       ELSE Fail
    /\ UNCHANGED fnvars

\* pip_to_poetry.main: tu.write_to_pyproject_toml(metadata, path) dumps the document
PipToPoetryWrite ==
    /\ conv = "pip_to_poetry"
    /\ pc = "converted"
    /\ IF src.writable
       THEN /\ outfile' = [written |-> TRUE, doc |-> meta]
            /\ pc' = "written"
            /\ steps' = Append(steps, "write")
            /\ UNCHANGED <<conv, src, meta, printed>>
       ELSE Fail
    /\ UNCHANGED fnvars

\* pip_to_poetry.main: print the success message
PipToPoetryPrint ==
    /\ conv = "pip_to_poetry"
    /\ pc = "written"
    /\ printed' = TRUE
    /\ pc' = "done"
    /\ steps' = Append(steps, "print")
    /\ UNCHANGED <<conv, src, meta, outfile>>
    /\ UNCHANGED fnvars

Next ==
    \/ PoetryToPipRead
    \/ PoetryToPipConvert
    \/ PoetryToPipWrite
    \/ PipToPoetryRead
    \/ PipToPoetryConvert
    \/ PipToPoetryWrite
    \/ PipToPoetryPrint

Spec == Init /\ [][Next]_vars

\* ------------------------------------------------------- specifier claims
Returned == fpc \in {"returned", "raised", "back"}

GE == <<">", "=">>
LT == <<",", "<">>

WellFormedKinds == {"star", "caret3", "tilde2", "tilde3", "bare3", "bare2", "ge2"}

\* What section 4.1 of the specification prescribes for a well-formed specifier.
ExpectedPip(sh) ==
    CASE sh.kind = "star" -> <<>>
      [] sh.kind = "caret3" -> GE \o V3(sh.x, sh.y, sh.z) \o LT \o V3(sh.x + 1, 0, 0)
      [] sh.kind = "tilde2" -> GE \o V2(sh.x, sh.y) \o LT \o V3(sh.x, sh.y + 1, 0)
      [] sh.kind = "tilde3" -> GE \o V3(sh.x, sh.y, sh.z) \o LT \o V3(sh.x, sh.y + 1, 0)
      [] OTHER -> Render(sh)

\* C1: for every well-formed Poetry specifier, convert_version_specifier returns
\* "" for "*", ">=X.Y.Z,<(X+1).0.0" for "^X.Y.Z", ">=<original>,<X.(Y+1).0" for
\* "~X.Y" and "~X.Y.Z", and the string itself for any other specifier.
C1_SpecifierRules ==
    (call = "convert_version_specifier" /\ Returned /\ shape.kind \in WellFormedKinds)
        => res = Ret(ExpectedPip(shape))

C1_Witness ==
    /\ call = "convert_version_specifier"
    /\ fpc = "returned"
    /\ arg = <<"~", "1", ".", "2">>
    /\ res = Ret(<<">", "=", "1", ".", "2", ",", "<", "1", ".", "3", ".", "0">>)

\* C3: a caret specifier "^X.Y.Z" translated to pip by convert_version_specifier
\* and back by convert_version is "^X.Y.Z" again.
C3_CaretRoundTrip ==
    (call = "convert_version_specifier" /\ shape.kind = "caret3")
        => /\ fpc # "raised"
           /\ fpc = "back" => back = arg

C3_Witness ==
    /\ call = "convert_version_specifier"
    /\ fpc = "back"
    /\ shape = [kind |-> "caret3", x |-> 9, y |-> 2, z |-> 10]
    /\ res = Ret(<<">", "=", "9", ".", "2", ".", "1", "0", ",", "<", "1", "0", ".", "0", ".", "0">>)
    /\ back = <<"^", "9", ".", "2", ".", "1", "0">>

ShortKinds == {"caret2", "caret1", "caret0", "tilde1", "tilde0"}

\* C5: convert_version_specifier never raises on a caret or tilde specifier with
\* fewer dotted components than expected ("^1", "~1", "^", "~"): it returns a
\* constraint string.
C5_ShortSpecifierNeverRaises ==
    (call = "convert_version_specifier" /\ shape.kind \in ShortKinds)
        => fpc # "raised"

\* Every non-overlapping occurrence of op removed, scanning left to right.
RECURSIVE Without(_, _)
Without(s, op) ==
    IF Len(s) = 0 THEN s
    ELSE IF Len(s) >= Len(op) /\ \A i \in 1..Len(op) : s[i] = op[i]
        THEN Without(SubSeq(s, Len(op) + 1, Len(s)), op)
    ELSE <<s[1]>> \o Without(Tail(s), op)

Occurs(s, op) == \E i \in 1..Len(s) : \E j \in i..Len(s) : SubSeq(s, i, j) = op

\* The part of s before its first comma (all of s when it has none).
BeforeComma(s) ==
    LET k == CHOOSE n \in 0..Len(s) :
                 /\ \A i \in 1..n : s[i] # ","
                 /\ n = Len(s) \/ s[n + 1] = ","
    IN  SubSeq(s, 1, k)

\* What section 4.2 of the specification prescribes, rule by rule.
ExpectedPoetry(s) ==
    IF s = <<>> \/ s = <<"*">> THEN <<"*">>
    ELSE IF Occurs(s, <<"=", "=">>) THEN Without(s, <<"=", "=">>)
    ELSE IF Occurs(s, GE) /\ Occurs(s, <<"<">>) THEN <<"^">> \o Without(BeforeComma(s), GE)
    ELSE s

\* C9: for every input string, convert_version returns "*" for "" and "*", the
\* string without "==" when it contains "==", "^" followed by the part before
\* the first comma without ">=" when it contains ">=" and "<", and the string
\* itself otherwise.
C9_ConvertVersionRules ==
    (call = "convert_version" /\ fpc = "returned") => res = Ret(ExpectedPoetry(arg))

C9_Witness ==
    /\ call = "convert_version"
    /\ fpc = "returned"
    /\ arg = <<">", "=", "1", ",", "<">>
    /\ res = Ret(<<"^", "1">>)

\* ------------------------------------------------------ converter claims
Converted == pc \in {"converted", "written", "done"}

\* The [tool.poetry] table of the produced Poetry document.
OutPoetry == Lookup(meta.tool, "poetry").table

HasDevDependencies == src.dev_state = "present" /\ src.dev # <<>>

\* C2: get_dependencies of pip_to_poetry maps "name<constraint>" (constraint
\* starting with "==" or ">=") to trimmed name -> rule set 4.2 applied to the
\* constraint, operator included, and a bare name to name -> "*".
C2_ListToMapping ==
    (conv = "pip_to_poetry" /\ Converted /\ ~HasKey(src.tool, "poetry")
            /\ "dependencies" \notin src.absent)
        => \A i \in 1..Len(src.dependencies) : \A d \in PipDepParts :
              (/\ src.dependencies[i] = d[1] \o d[2]
               /\ \A j \in (i + 1)..Len(src.dependencies) : \A e \in PipDepParts :
                      src.dependencies[j] = e[1] \o e[2] => Strip(e[1]) # Strip(d[1]))
              => /\ HasKey(OutPoetry.dependencies, Strip(d[1]))
                 /\ Lookup(OutPoetry.dependencies, Strip(d[1]))
                        = IF d[2] = <<>> THEN <<"*">> ELSE ExpectedPoetry(d[2])

\* C4: every tool section of the source other than the one being replaced is in
\* the output unchanged; tool.setuptools is not in the Poetry output.
C4_ToolSectionsPassThrough ==
    (conv # "none" /\ Converted)
        => /\ \A i \in 1..Len(src.tool) :
                  src.tool[i][1] # (IF conv = "pip_to_poetry" THEN "setuptools" ELSE "poetry")
                  => /\ HasKey(meta.tool, src.tool[i][1])
                     /\ Lookup(meta.tool, src.tool[i][1]) = src.tool[i][2]
           /\ conv = "pip_to_poetry" => ~HasKey(meta.tool, "setuptools")
           /\ conv = "poetry_to_pip" => ~HasKey(meta.tool, "poetry")

\* C6: converting from Poetry, no entry of the pip dependency list or of the dev
\* list is built from a python key; converting to Poetry, python is the first
\* key of the dependencies mapping, with the value "^3.11".
C6_PythonNeverTranslated ==
    /\ (conv = "poetry_to_pip" /\ Converted)
           => \A i \in 1..Len(meta.project.dependencies \o meta.project.optional_dev) :
                  ~StartsWith(Lower((meta.project.dependencies \o meta.project.optional_dev)[i]),
                              python)
    /\ (conv = "pip_to_poetry" /\ Converted)
           => /\ Len(OutPoetry.dependencies) >= 1
              /\ OutPoetry.dependencies[1] = <<python, <<"^", "3", ".", "1", "1">>>>

\* C7: the output has a dev-dependency section exactly when the source has at
\* least one dev dependency, in both directions.
C7_DevSectionOnlyWhenNeeded ==
    /\ (conv = "poetry_to_pip" /\ Converted) => (meta.project.has_optional <=> HasDevDependencies)
    /\ (conv = "pip_to_poetry" /\ Converted) => (OutPoetry.has_group <=> HasDevDependencies)

\* name, or name followed by "==" or ">=" and a version.
PipForm(s) ==
    \E n \in {np, python, Python_cap} :
        \/ s = n
        \/ /\ Len(s) > Len(n) + 2
           /\ SubSeq(s, 1, Len(n)) = n
           /\ SubSeq(s, Len(n) + 1, Len(n) + 2) \in {<<"=", "=">>, <<">", "=">>}

\* C8: every entry of the pip dependency list produced from a Poetry mapping is
\* a pip-form specifier: the name alone, or the name, an operator ("==" or ">=")
\* and a version.
C8_PipFormEntries ==
    (conv = "poetry_to_pip" /\ Converted)
        => \A i \in 1..Len(meta.project.dependencies) : PipForm(meta.project.dependencies[i])

RequiredMissing == ~src.has_table \/ {"name", "version"} \cap src.absent # {}

MainOrder == <<"read", "convert", "write", "print">>

\* C10: the steps of a run are read, convert, write (then the message), in that
\* order; the file is written only after reading and converting succeeded, the
\* message is printed only after the write, and a source without its metadata
\* table, name or version ends in failure with no file and no message.
C10_ReadConvertWrite ==
    conv # "none"
        => /\ Len(steps) <= 4 /\ steps = SubSeq(MainOrder, 1, Len(steps))
           /\ outfile.written <=> Len(steps) >= 3
           /\ printed => outfile.written
           /\ RequiredMissing
                  => /\ ~outfile.written
                     /\ ~printed
                     /\ pc \in {"start", "read", "failed"}
                     /\ Len(steps) <= 1

C10_Witness ==
    /\ conv = "pip_to_poetry"
    /\ src.absent = {"version"}
    /\ pc = "failed"
    /\ steps = <<"read">>
    /\ ~outfile.written
    /\ ~printed

====
